---- MODULE Spec2Model ----
(***************************************************************************)
(* Model of main.py of NVD_CVE_API: the two request handlers list_cves and *)
(* get_cve, the filter builder build_where_clause, the table cves they     *)
(* query, and the normalisation get_cve applies to a row's raw_json.       *)
(*                                                                         *)
(* A request is a process: its position (pc) moves through the handler's   *)
(* store round trips, between which other requests and the ingestion       *)
(* process may act.  JSON values are tagged records, Python's dict.get,    *)
(* truthiness, iteration and exceptions are operators over them.           *)
(***************************************************************************)
EXTENDS Integers, Sequences, FiniteSets, TLC

(***************************************************************************)
(* Bounds of the model.                                                    *)
(***************************************************************************)
\* number of request slots (concurrent requests)
NumReqs == 2
\* how many days after the last ingestion a run may take place
MaxLater == 1
\* longest reference_data / cpe_match / children list that is enumerated
MaxListLen == 2

(***************************************************************************)
(* Program constants.                                                      *)
(***************************************************************************)
\* Query(1, ge=1): the smallest page
MinPage == 1
\* Query(10, ge=1, le=100): the page size limits
MinPageSize == 1
MaxPageSize == 100
DefaultPageSize == 10

VARIABLES
    store,      \* the table cves: a set of rows, cve_id unique
    now,        \* the instant of the run, in days
    open,       \* the connection handles open at the store
    pc,         \* pc[r]: the position of request r
    op,         \* op[r]: the handler request r runs ("none" when idle)
    args,       \* args[r]: the parameters request r was called with
    local,      \* local[r]: the handler's local variables
    resp        \* resp[r]: the response of request r

vars == <<store, now, open, pc, op, args, local, resp>>

Reqs == 1 .. NumReqs

(***************************************************************************)
(* JSON / Python values.  None and JSON null are the same value.           *)
(***************************************************************************)
JNull == [t |-> "null"]
JBool(b) == [t |-> "bool", b |-> b]
JNum(n) == [t |-> "num", n |-> n]
JStr(s) == [t |-> "str", s |-> s]
JList(l) == [t |-> "list", l |-> l]
\* a dict: the sequence of its <<key, value>> items
JMap(m) == [t |-> "map", m |-> m]
\* the outcome of an expression that raised
Raise == [t |-> "raise"]

IsRaise(v) == v.t = "raise"

\* bool(v)
Truthy(v) ==
    CASE v.t = "null" -> FALSE
      [] v.t = "bool" -> v.b
      [] v.t = "num" -> v.n # 0
      [] v.t = "str" -> v.s # ""
      [] v.t = "list" -> v.l # <<>>
      [] v.t = "map" -> v.m # <<>>
      [] OTHER -> FALSE

HasKey(m, k) == \E i \in DOMAIN m : m[i][1] = k

Lookup(m, k) ==
    m[CHOOSE i \in DOMAIN m :
        /\ m[i][1] = k
        /\ \A j \in DOMAIN m : m[j][1] = k => j <= i][2]

\* v.get(k, d): AttributeError unless v is a dict
PyGet(v, k, d) ==
    IF v.t # "map" THEN Raise
    ELSE IF HasKey(v.m, k) THEN Lookup(v.m, k) ELSE d

\* x or d
PyOr(x, d) == IF IsRaise(x) THEN Raise ELSE IF Truthy(x) THEN x ELSE d

\* the items "for e in v" visits, as a list; TypeError when v is not iterable
PyIter(v) ==
    CASE v.t = "list" -> v
      [] v.t = "map" -> JList([i \in DOMAIN v.m |-> JStr(v.m[i][1])])
      [] v.t = "str" -> JList([i \in 1 .. Len(v.s) |-> JStr(SubSeq(v.s, i, i))])
      [] OTHER -> Raise

\* the concatenation of lists, Raise when one of them raised
RECURSIVE ConcatAll(_)
ConcatAll(parts) ==
    IF parts = <<>> THEN JList(<<>>)
    ELSE LET h == Head(parts)
             t == ConcatAll(Tail(parts))
         IN  IF IsRaise(h) \/ IsRaise(t) THEN Raise ELSE JList(h.l \o t.l)

(***************************************************************************)
(* get_cve: the normalisation of raw_json.                                 *)
(***************************************************************************)
V2Fields ==
    << "baseScore", "vectorString", "accessVector", "accessComplexity",
       "authentication", "confidentialityImpact", "integrityImpact",
       "availabilityImpact", "exploitabilityScore", "impactScore" >>

V3Fields ==
    << "baseScore", "vectorString", "attackVector", "attackComplexity",
       "privilegesRequired", "userInteraction", "scope",
       "confidentialityImpact", "integrityImpact", "availabilityImpact" >>

\* raw = row.get("raw_json") or {}
RawOf(raw_json) == PyOr(raw_json, JMap(<<>>))

\* metrics = raw.get("metrics", {}) if isinstance(raw, dict) else {}
MetricsOf(raw) ==
    IF raw.t = "map" THEN PyGet(raw, "metrics", JMap(<<>>)) ELSE JMap(<<>>)

\* the dict literal {f: data.get(f) for the scheme's fields}
CvssRecord(data, fields) ==
    IF data.t # "map" THEN Raise
    ELSE JMap([i \in DOMAIN fields |-> <<fields[i], PyGet(data, fields[i], JNull)>>])

\* a variant of CvssFromList that reads the last element of the list
CvssFromLastElement(lst, fields) ==
    IF IsRaise(lst) THEN Raise
    ELSE IF Truthy(lst) /\ lst.t = "list" /\ Len(lst.l) > 0
         THEN CvssRecord(PyGet(lst.l[Len(lst.l)], "cvssData", JMap(<<>>)), fields)
         ELSE JMap(<<>>)

\* the body of "if lst and isinstance(lst, list) and len(lst) > 0"
CvssFromList(lst, fields) ==
    IF IsRaise(lst) THEN Raise
    ELSE IF Truthy(lst) /\ lst.t = "list" /\ Len(lst.l) > 0
         THEN CvssRecord(PyGet(lst.l[1], "cvssData", JMap(<<>>)), fields)
         ELSE JMap(<<>>)

\* try: ... except Exception: x = {}
OrEmptyMap(v) == IF IsRaise(v) THEN JMap(<<>>) ELSE v

\* try: ... except Exception: x = []
OrEmptyList(v) == IF IsRaise(v) THEN JList(<<>>) ELSE v

\* v2_list = metrics.get("cvssMetricV2") or metrics.get("cvssMetricV2", [])
CvssV2(metrics) ==
    OrEmptyMap(CvssFromList(
        PyOr(PyGet(metrics, "cvssMetricV2", JNull),
             PyGet(metrics, "cvssMetricV2", JList(<<>>))),
        V2Fields))

\* v3_list = metrics.get("cvssMetricV3") or []
CvssV3(metrics) ==
    OrEmptyMap(CvssFromList(
        PyOr(PyGet(metrics, "cvssMetricV3", JNull), JList(<<>>)),
        V3Fields))

\* a variant of ReferenceEntry that skips an element that is not a mapping
ReferenceEntrySkipping(r) ==
    IF r.t # "map" THEN JList(<<>>)
    ELSE JList(<< JMap(<< <<"url", PyGet(r, "url", JNull)>>,
                          <<"name", PyGet(r, "name", JNull)>> >>) >>)

\* {"url": r.get("url"), "name": r.get("name")}
ReferenceEntry(r) ==
    IF r.t # "map" THEN Raise
    ELSE JList(<< JMap(<< <<"url", PyGet(r, "url", JNull)>>,
                          <<"name", PyGet(r, "name", JNull)>> >>) >>)

\* the list "for e in (v or [])" visits; Raise when v raised or is not iterable
Iterated(v) == IF IsRaise(v) THEN Raise ELSE PyIter(PyOr(v, JList(<<>>)))

\* ref_list = raw.get("references", {}).get("reference_data", [])
\* for r in (ref_list or []): references.append(...)
References(raw) ==
    LET it == Iterated(PyGet(PyGet(raw, "references", JMap(<<>>)),
                             "reference_data", JList(<<>>)))
    IN  OrEmptyList(
          IF IsRaise(it) THEN Raise
          ELSE ConcatAll([i \in DOMAIN it.l |-> ReferenceEntry(it.l[i])]))

\* the body of "for match in ...": one product when criteria is truthy
MatchEntry(match) ==
    IF match.t # "map" THEN Raise
    ELSE LET criteria == PyGet(match, "cpe23Uri", JNull)
             match_id == PyGet(match, "matchCriteriaId", JNull)
             vulnerable == PyGet(match, "vulnerable", JBool(FALSE))
         IN  IF Truthy(criteria)
             THEN JList(<< JMap(<< <<"criteria", criteria>>,
                                   <<"matchCriteriaId", match_id>>,
                                   <<"vulnerable", vulnerable>> >>) >>)
             ELSE JList(<<>>)

\* for match in (x.get("cpe_match") or []): ...
ScanMatches(x) ==
    LET it == Iterated(PyGet(x, "cpe_match", JNull))
    IN  IF IsRaise(it) THEN Raise
        ELSE ConcatAll([i \in DOMAIN it.l |-> MatchEntry(it.l[i])])

\* for child in (node.get("children") or []): for match in ...
ScanChildren(node) ==
    LET it == Iterated(PyGet(node, "children", JNull))
    IN  IF IsRaise(it) THEN Raise
        ELSE ConcatAll([i \in DOMAIN it.l |-> ScanMatches(it.l[i])])

\* a variant of NodeEntries that scans the children before the node's own list
NodeEntriesChildrenFirst(node) == ConcatAll(<< ScanChildren(node), ScanMatches(node) >>)

\* the body of "for node in nodes": the node's matches, then its children's
NodeEntries(node) == ConcatAll(<< ScanMatches(node), ScanChildren(node) >>)

\* a variant of Products whose try block also holds the references loop: a
\* failure there empties products too
ProductsSharedTry(raw) ==
    LET refs == Iterated(PyGet(PyGet(raw, "references", JMap(<<>>)),
                               "reference_data", JList(<<>>)))
        it == Iterated(PyGet(PyGet(raw, "configurations", JMap(<<>>)),
                             "nodes", JList(<<>>)))
    IN  OrEmptyList(
          IF IsRaise(refs) THEN Raise
          ELSE IF IsRaise(ConcatAll([i \in DOMAIN refs.l |-> ReferenceEntry(refs.l[i])]))
          THEN Raise
          ELSE IF IsRaise(it) THEN Raise
          ELSE ConcatAll([i \in DOMAIN it.l |-> NodeEntries(it.l[i])]))

\* nodes = raw.get("configurations", {}).get("nodes", []) or []
Products(raw) ==
    LET it == Iterated(PyGet(PyGet(raw, "configurations", JMap(<<>>)),
                             "nodes", JList(<<>>)))
    IN  OrEmptyList(
          IF IsRaise(it) THEN Raise
          ELSE ConcatAll([i \in DOMAIN it.l |-> NodeEntries(it.l[i])]))

\* the response body get_cve builds for a row
Normalize(row) ==
    LET raw == RawOf(row.raw_json)
        metrics == MetricsOf(raw)
    IN  [ cve_id |-> row.cve_id,
          description |-> row.description,
          published_date |-> row.published_date,
          last_modified |-> row.last_modified,
          base_score_v2 |-> row.base_score_v2,
          base_score_v3 |-> row.base_score_v3,
          cvss_v2 |-> CvssV2(metrics),
          cvss_v3 |-> CvssV3(metrics),
          references |-> References(raw),
          products |-> Products(raw) ]

(***************************************************************************)
(* Strings: str.lower(), str.upper() and the pattern match of ILIKE.       *)
(***************************************************************************)
UpperChars == "ABCDEFGHIJKLMNOPQRSTUVWXYZ"
LowerChars == "abcdefghijklmnopqrstuvwxyz"

CharAt(s, i) == SubSeq(s, i, i)
Rest(s) == SubSeq(s, 2, Len(s))

LowerChar(c) ==
    IF \E i \in 1 .. Len(UpperChars) : CharAt(UpperChars, i) = c
    THEN CharAt(LowerChars, CHOOSE i \in 1 .. Len(UpperChars) : CharAt(UpperChars, i) = c)
    ELSE c

UpperChar(c) ==
    IF \E i \in 1 .. Len(LowerChars) : CharAt(LowerChars, i) = c
    THEN CharAt(UpperChars, CHOOSE i \in 1 .. Len(LowerChars) : CharAt(LowerChars, i) = c)
    ELSE c

RECURSIVE Lower(_)
Lower(s) == IF s = "" THEN "" ELSE LowerChar(CharAt(s, 1)) \o Lower(Rest(s))

RECURSIVE Upper(_)
Upper(s) == IF s = "" THEN "" ELSE UpperChar(CharAt(s, 1)) \o Upper(Rest(s))

\* s LIKE pat: % matches any run of characters, _ any one character
RECURSIVE Like(_, _)
Like(s, pat) ==
    IF pat = "" THEN s = ""
    ELSE IF CharAt(pat, 1) = "%"
         THEN \E k \in 0 .. Len(s) : Like(SubSeq(s, k + 1, Len(s)), Rest(pat))
         ELSE /\ s # ""
              /\ CharAt(pat, 1) \in {"_", CharAt(s, 1)}
              /\ Like(Rest(s), Rest(pat))

\* s ILIKE pat
ILike(s, pat) == Like(Lower(s), Lower(pat))

(***************************************************************************)
(* build_where_clause.  An optional parameter is None or Some(v); a bound  *)
(* value is an integer or a text.  where_clause is kept as the sequence of *)
(* conditions that " AND ".join makes one conjunction of.                  *)
(***************************************************************************)
None == [some |-> FALSE]
Some(v) == [some |-> TRUE, v |-> v]

PInt(n) == [k |-> "int", i |-> n]
PText(s) == [k |-> "text", s |-> s]

CondTrue == "TRUE"
CondYear == "EXTRACT(YEAR FROM published_date) = %s"
CondV3 == "base_score_v3 >= %s"
CondV2 == "base_score_v2 >= %s"
CondDays == "last_modified >= NOW() - INTERVAL '%s days'"
CondId == "cve_id ILIKE %s"

\* "if x:" for an Optional[int]
IfInt(x) == x.some /\ x.v # 0

\* "if x:" for an Optional[str]
IfStr(x) == x.some /\ x.v # ""

\* "if x is not None:"
IsNotNone(x) == x.some

build_where_clause(year, min_score_v3, min_score_v2, last_n_days, cve_id) ==
    LET c1 == IF IfInt(year) THEN <<CondYear>> ELSE <<>>
        p1 == IF IfInt(year) THEN <<PInt(year.v)>> ELSE <<>>
        c2 == IF IsNotNone(min_score_v3) THEN <<CondV3>> ELSE <<>>
        p2 == IF IsNotNone(min_score_v3) THEN <<PInt(min_score_v3.v)>> ELSE <<>>
        c3 == IF IsNotNone(min_score_v2) THEN <<CondV2>> ELSE <<>>
        p3 == IF IsNotNone(min_score_v2) THEN <<PInt(min_score_v2.v)>> ELSE <<>>
        c4 == IF IfInt(last_n_days) THEN <<CondDays>> ELSE <<>>
        p4 == IF IfInt(last_n_days) THEN <<PInt(last_n_days.v)>> ELSE <<>>
        c5 == IF IfStr(cve_id) THEN <<CondId>> ELSE <<>>
        p5 == IF IfStr(cve_id) THEN <<PText("%" \o cve_id.v \o "%")>> ELSE <<>>
    IN  [ where_clause |-> <<CondTrue>> \o c1 \o c2 \o c3 \o c4 \o c5,
          params |-> p1 \o p2 \o p3 \o p4 \o p5 ]

(***************************************************************************)
(* The table cves and the queries the handlers send.  A timestamp is a day *)
(* number counted from 1 January 2023; a nullable score is the empty set   *)
(* (NULL) or the set of its value.                                         *)
(***************************************************************************)
\* EXTRACT(YEAR FROM ts)
YearOf(ts) == 2023 + (ts \div 365)

\* one condition of the clause on a row, with its bound value; a comparison
\* with NULL is not true
CondHolds(row, cond, p, txn_now) ==
    CASE cond = CondYear -> YearOf(row.published_date) = p.i
      [] cond = CondV3 -> \E x \in row.base_score_v3 : x >= p.i
      [] cond = CondV2 -> \E x \in row.base_score_v2 : x >= p.i
      [] cond = CondDays -> row.last_modified >= txn_now - p.i
      [] cond = CondId -> ILike(row.cve_id, p.s)
      [] OTHER -> FALSE

\* WHERE where_clause, the placeholders bound to params in order
RECURSIVE Holds(_, _, _, _)
Holds(row, where_clause, params, txn_now) ==
    IF where_clause = <<>> THEN TRUE
    ELSE IF Head(where_clause) = CondTrue
         THEN Holds(row, Tail(where_clause), params, txn_now)
         ELSE /\ CondHolds(row, Head(where_clause), Head(params), txn_now)
              /\ Holds(row, Tail(where_clause), Tail(params), txn_now)

Matching(rows, where_clause, params, txn_now) ==
    {row \in rows : Holds(row, where_clause, params, txn_now)}

SortKeyOf(row, sort_by) ==
    IF sort_by = "published_date" THEN row.published_date ELSE row.last_modified

\* ORDER BY sort_by sort_order: every order of the rows the keys allow
\* (rows with equal keys come in any order)
Ordered(rows, sort_by, sort_order) ==
    {q \in [1 .. Cardinality(rows) -> rows] :
        /\ \A i, j \in DOMAIN q : i # j => q[i] # q[j]
        /\ \A i, j \in DOMAIN q : i < j =>
              IF sort_order = "ASC"
              THEN SortKeyOf(q[i], sort_by) <= SortKeyOf(q[j], sort_by)
              ELSE SortKeyOf(q[i], sort_by) >= SortKeyOf(q[j], sort_by)}

Min(a, b) == IF a < b THEN a ELSE b

\* LIMIT limit OFFSET offset
LimitOffset(q, limit, offset) == SubSeq(q, offset + 1, Min(offset + limit, Len(q)))

\* the columns the data query selects
Summary(row) ==
    [ cve_id |-> row.cve_id,
      year |-> YearOf(row.published_date),
      published_date |-> row.published_date,
      last_modified |-> row.last_modified,
      base_score_v3 |-> row.base_score_v3,
      base_score_v2 |-> row.base_score_v2,
      description |-> row.description ]

\* the results the data query may return on a table
DataQuery(rows, l, limit) ==
    {[i \in DOMAIN p |-> Summary(p[i])] :
        p \in {LimitOffset(q, limit, l.offset) :
                 q \in Ordered(Matching(rows, l.where_clause, l.params, l.txn_now),
                               l.sort_by, Upper(l.sort_order))}}

\* SELECT COUNT(*) AS total FROM cves WHERE where_clause
CountQuery(rows, l) ==
    Cardinality(Matching(rows, l.where_clause, l.params, l.txn_now))

\* a variant of DetailQuery that compares identifiers without regard to case
DetailQueryAnyCase(rows, cve_id) ==
    IF \E row \in rows : Lower(row.cve_id) = Lower(cve_id)
    THEN <<CHOOSE row \in rows : Lower(row.cve_id) = Lower(cve_id)>>
    ELSE <<>>

\* SELECT ... FROM cves WHERE cve_id = %s; fetchone(): the row, or none
DetailQuery(rows, cve_id) ==
    IF \E row \in rows : row.cve_id = cve_id
    THEN <<CHOOSE row \in rows : row.cve_id = cve_id>>
    ELSE <<>>

(***************************************************************************)
(* The handlers.                                                           *)
(***************************************************************************)
Handles == 1 .. NumReqs
NoArgs == [none |-> TRUE]
NoResp == [status |-> 0]
Blank ==
    [ sort_by |-> "", sort_order |-> "", offset |-> 0,
      where_clause |-> <<>>, params |-> <<>>,
      conn |-> 0, txn_now |-> 0, exc |-> FALSE,
      data |-> <<>>, total |-> 0, row |-> <<>> ]

\* an unhandled exception: the framework answers 500; exc names what was raised
StoreError == [status |-> 500, exc |-> "psycopg2.Error"]
HandlerError == [status |-> 500, exc |-> "AttributeError"]
\* a parameter fails the Query(...) constraints: the framework answers 422
ValidationError == [status |-> 422]

\* if sort_by not in ("published_date", "last_modified"): sort_by = "published_date"
SortBy(sort_by) ==
    IF sort_by \notin {"published_date", "last_modified"} THEN "published_date" ELSE sort_by

\* a variant of SortOrder whose fallback is ascending
SortOrderFallbackAsc(sort_order) ==
    IF Lower(sort_order) \notin {"asc", "desc"} THEN "asc" ELSE sort_order

\* if sort_order.lower() not in ("asc", "desc"): sort_order = "desc"
SortOrder(sort_order) ==
    IF Lower(sort_order) \notin {"asc", "desc"} THEN "desc" ELSE sort_order

\* a variant of Offset that counts pages from 0
OffsetFromPage(page, results_per_page) == page * results_per_page

\* offset = (page - 1) * results_per_page
Offset(page, results_per_page) == (page - 1) * results_per_page

\* Query(1, ge=1) and Query(10, ge=1, le=100): what the framework lets through
Validated(a) ==
    /\ a.page >= MinPage
    /\ a.results_per_page >= MinPageSize
    /\ a.results_per_page <= MaxPageSize

\* a request for /cves/list arrives: the parameters are validated, then the
\* handler runs up to its call of get_connection
list_cves_call(r, a) ==
    /\ pc[r] = "idle"
    /\ op' = [op EXCEPT ![r] = "list_cves"]
    /\ args' = [args EXCEPT ![r] = a]
    /\ IF ~Validated(a)
       THEN /\ pc' = [pc EXCEPT ![r] = "done"]
            /\ resp' = [resp EXCEPT ![r] = ValidationError]
            /\ UNCHANGED local
       ELSE LET w == build_where_clause(a.year, a.min_score_v3, a.min_score_v2,
                                        a.last_n_days, a.cve_id)
            IN  /\ pc' = [pc EXCEPT ![r] = "connect"]
                /\ local' = [local EXCEPT ![r] =
                      [Blank EXCEPT !.sort_by = SortBy(a.sort_by),
                                    !.sort_order = SortOrder(a.sort_order),
                                    !.offset = Offset(a.page, a.results_per_page),
                                    !.where_clause = w.where_clause,
                                    !.params = w.params]]
                /\ UNCHANGED resp
    /\ UNCHANGED <<store, now, open>>

\* a request for /cves/{cve_id} arrives
get_cve_call(r, cve_id) ==
    /\ pc[r] = "idle"
    /\ op' = [op EXCEPT ![r] = "get_cve"]
    /\ args' = [args EXCEPT ![r] = [cve_id |-> cve_id]]
    /\ pc' = [pc EXCEPT ![r] = "connect"]
    /\ local' = [local EXCEPT ![r] = Blank]
    /\ UNCHANGED <<store, now, open, resp>>

\* conn = get_connection(): a new connection, or psycopg2.connect raises and
\* the request fails before its try block
get_connection(r) ==
    /\ pc[r] = "connect"
    /\ \/ \E h \in Handles \ open :
            /\ open' = open \cup {h}
            /\ local' = [local EXCEPT ![r].conn = h]
            /\ pc' = [pc EXCEPT ![r] = IF op[r] = "list_cves" THEN "rows" ELSE "fetch"]
            /\ UNCHANGED resp
       \/ /\ resp' = [resp EXCEPT ![r] = StoreError]
          /\ pc' = [pc EXCEPT ![r] = "done"]
          /\ local' = [local EXCEPT ![r] = Blank]
          /\ UNCHANGED open
    /\ UNCHANGED <<store, now, op, args>>

\* a statement raises psycopg2.Error: control goes to the finally clause,
\* which reads conn only
Fails(r) ==
    /\ local' = [local EXCEPT ![r] = [Blank EXCEPT !.conn = local[r].conn, !.exc = TRUE]]
    /\ pc' = [pc EXCEPT ![r] = "finally"]

\* cur.execute(sql, params_for_query); rows = cur.fetchall(); cur.close()
\* The first statement opens the transaction, whose start NOW() returns.
list_cves_rows(r) ==
    /\ pc[r] = "rows"
    /\ \/ /\ local' = [local EXCEPT ![r].txn_now = now]
          /\ pc' = [pc EXCEPT ![r] = "data"]
       \/ Fails(r)
    /\ UNCHANGED <<store, now, open, op, args, resp>>

\* cur = conn.cursor(...); cur.execute(sql, params_for_query); data = cur.fetchall()
list_cves_data(r) ==
    /\ pc[r] = "data"
    /\ \/ \E d \in DataQuery(store, local[r], args[r].results_per_page) :
            /\ local' = [local EXCEPT ![r].data = d]
            /\ pc' = [pc EXCEPT ![r] = "count"]
       \/ Fails(r)
    /\ UNCHANGED <<store, now, open, op, args, resp>>

\* cur.execute(count_sql, params); total = cur.fetchone()["total"]
list_cves_count(r) ==
    /\ pc[r] = "count"
    /\ \/ /\ local' = [local EXCEPT ![r].total = CountQuery(store, local[r])]
          /\ pc' = [pc EXCEPT ![r] = "finally"]
       \/ Fails(r)
    /\ UNCHANGED <<store, now, open, op, args, resp>>

\* the value list_cves returns
ListBody(a, l) ==
    [ page |-> a.page,
      results_per_page |-> a.results_per_page,
      total_records |-> l.total,
      cves |-> l.data ]

\* a variant of list_cves_finally that closes on the normal path only
list_cves_close_on_return(r) ==
    /\ pc[r] = "finally"
    /\ op[r] = "list_cves"
    /\ open' = IF local[r].exc THEN open ELSE open \ {local[r].conn}
    /\ pc' = [pc EXCEPT ![r] = "done"]
    /\ resp' = [resp EXCEPT ![r] =
          IF local[r].exc THEN StoreError
          ELSE [status |-> 200, body |-> ListBody(args[r], local[r])]]
    /\ local' = [local EXCEPT ![r] = Blank]
    /\ UNCHANGED <<store, now, op, args>>

\* finally: conn.close(); then the return, or the exception goes on
list_cves_finally(r) ==
    /\ pc[r] = "finally"
    /\ op[r] = "list_cves"
    /\ open' = open \ {local[r].conn}
    /\ pc' = [pc EXCEPT ![r] = "done"]
    /\ resp' = [resp EXCEPT ![r] =
          IF local[r].exc THEN StoreError
          ELSE [status |-> 200, body |-> ListBody(args[r], local[r])]]
    /\ local' = [local EXCEPT ![r] = Blank]
    /\ UNCHANGED <<store, now, op, args>>

\* cur.execute(sql, (cve_id,)); row = cur.fetchone()
get_cve_fetch(r) ==
    /\ pc[r] = "fetch"
    /\ \/ /\ local' = [local EXCEPT ![r].row = DetailQuery(store, args[r].cve_id)]
          /\ pc' = [pc EXCEPT ![r] = "finally"]
       \/ Fails(r)
    /\ UNCHANGED <<store, now, open, op, args, resp>>

\* "if not row: raise HTTPException(404)", else the normalised detail; an
\* exception outside the four try blocks fails the request
DetailResponse(row) ==
    IF row = <<>> THEN [status |-> 404, detail |-> "CVE not found"]
    ELSE IF IsRaise(MetricsOf(RawOf(row[1].raw_json))) THEN HandlerError
    ELSE [status |-> 200, body |-> Normalize(row[1])]

\* finally: conn.close(); then the rest of get_cve, or the exception goes on
get_cve_finally(r) ==
    /\ pc[r] = "finally"
    /\ op[r] = "get_cve"
    /\ open' = open \ {local[r].conn}
    /\ pc' = [pc EXCEPT ![r] = "done"]
    /\ resp' = [resp EXCEPT ![r] =
          IF local[r].exc THEN StoreError ELSE DetailResponse(local[r].row)]
    /\ local' = [local EXCEPT ![r] = Blank]
    /\ UNCHANGED <<store, now, op, args>>

\* the response is sent; the worker takes the next request
Recycle(r) ==
    /\ pc[r] = "done"
    /\ pc' = [pc EXCEPT ![r] = "idle"]
    /\ op' = [op EXCEPT ![r] = "none"]
    /\ args' = [args EXCEPT ![r] = NoArgs]
    /\ local' = [local EXCEPT ![r] = Blank]
    /\ resp' = [resp EXCEPT ![r] = NoResp]
    /\ UNCHANGED <<store, now, open>>

(***************************************************************************)
(* The environment: the rows the ingestion process may write, the          *)
(* documents a row may hold, the requests a client may send.               *)
(***************************************************************************)
SeqsUpTo(S, n) == UNION {[1 .. k -> S] : k \in 0 .. n}

\* a key that is left out of a document under construction
Missing == [t |-> "missing"]
Present(item) == item[2].t # "missing"
Obj(items) == JMap(SelectSeq(items, Present))

Row(cve_id, published_date, last_modified, v3, v2, raw_json) ==
    [ cve_id |-> cve_id,
      published_date |-> published_date,
      last_modified |-> last_modified,
      base_score_v3 |-> v3,
      base_score_v2 |-> v2,
      description |-> "text of " \o cve_id,
      raw_json |-> raw_json ]

\* cvssData of the two schemes, complete and partial
V3Data == JMap(<< <<"baseScore", JNum(98)>>, <<"attackVector", JStr("NETWORK")>> >>)
V2Data ==
    JMap([i \in DOMAIN V2Fields |-> <<V2Fields[i], IF i = 1 THEN JNum(75) ELSE JStr(V2Fields[i])>>])
V2Other == JMap(<< <<"baseScore", JNum(10)>>, <<"authentication", JStr("NONE")>> >>)

Metric(data) == Obj(<< <<"cvssData", data>>, <<"source", JStr("nvd")>> >>)

RefGood == JMap(<< <<"url", JStr("u1")>>, <<"name", JStr("n1")>> >>)
RefPartial == JMap(<< <<"url", JStr("u2")>> >>)
RefBad == JStr("x")

MFull ==
    JMap(<< <<"cpe23Uri", JStr("p1")>>, <<"matchCriteriaId", JStr("m1")>>,
            <<"vulnerable", JBool(TRUE)>> >>)
MBare == JMap(<< <<"cpe23Uri", JStr("p2")>> >>)
MNoCriteria == JMap(<< <<"matchCriteriaId", JStr("m3")>>, <<"vulnerable", JBool(TRUE)>> >>)
MEmptyCriteria == JMap(<< <<"cpe23Uri", JStr("")>>, <<"matchCriteriaId", JStr("m4")>> >>)
MBad == JNum(7)

Node(cpe_match, children) ==
    Obj(<< <<"operator", JStr("OR")>>, <<"cpe_match", cpe_match>>, <<"children", children>> >>)

\* a well-formed document with every branch present
DocGood ==
    JMap(<< <<"metrics", JMap(<< <<"cvssMetricV3", JList(<<Metric(V3Data)>>)>>,
                                 <<"cvssMetricV2", JList(<<Metric(V2Data)>>)>> >>)>>,
            <<"references", JMap(<< <<"reference_data", JList(<<RefGood, RefPartial>>)>> >>)>>,
            <<"configurations",
              JMap(<< <<"nodes", JList(<<Node(JList(<<MFull>>), Missing)>>)>> >>)>> >>)

\* the two versions of CVE-1 that ingestion writes during the concurrent
\* runs: the upstream entry and its revision
Versions ==
    { Row("CVE-1", 10, 30, {8}, {}, DocGood),
      Row("CVE-1", 400, 410, {5}, {}, DocGood) }

\* the rows a table may hold
Catalog ==
    Versions
    \cup { Row("CVE-2", 10, 404, {9}, {7}, JNull),
           Row("cve-3", 20, 20, {}, {4}, JMap(<<>>)) }

\* the tables ingestion can have produced
Stores == {S \in SUBSET Catalog : \A x, y \in S : x.cve_id = y.cve_id => x = y}

\* values of metrics.cvssMetricV2 / cvssMetricV3, well-formed and not
CvssListValues(data, other) ==
    { Missing, JNull, JList(<<>>), JMap(<<>>), JStr("v"),
      JMap(<< <<"cvssData", data>> >>),
      JList(<<JNum(5)>>),
      JList(<<Metric(JNull)>>),
      JList(<<Metric(JList(<<data>>))>>),
      JList(<<Metric(Missing)>>),
      JList(<<Metric(JMap(<<>>))>>),
      JList(<<Metric(data)>>),
      JList(<<Metric(other), Metric(data)>>),
      JList(<<Metric(other), JNum(5)>>) }

MetricsValues ==
    {Missing, JNull, JList(<<>>), JStr("m"), JNum(0)}
    \cup {Obj(<< <<"cvssMetricV2", v2>>, <<"cvssMetricV3", v3>> >>) :
            v2 \in CvssListValues(V2Data, V2Other),
            v3 \in CvssListValues(V3Data, V2Other)}

ReferenceDataValues ==
    {JList(l) : l \in SeqsUpTo({RefGood, RefPartial, RefBad}, MaxListLen)}
    \cup {Missing, JNull, JMap(<<>>), RefGood, JNum(5), JStr("ab"), JStr("")}

ReferencesValues ==
    {Missing, JNull, JList(<<RefGood>>), JStr("r")}
    \cup {Obj(<< <<"reference_data", rd>> >>) : rd \in ReferenceDataValues}

MatchListValues ==
    {JList(l) : l \in SeqsUpTo({MFull, MBare, MNoCriteria, MBad}, MaxListLen)}
    \cup {JList(<<MEmptyCriteria, MFull>>), JList(<<MEmptyCriteria>>)}
    \cup {Missing, JNull, JMap(<<>>), MFull, JNum(3), JStr("")}

\* a child whose own children (grandchildren of the node) carry a match
ChildDeep == Node(JList(<<MNoCriteria, MFull>>), JList(<<Node(JList(<<MBare>>), Missing)>>))
ChildFlat == Node(JList(<<MBare>>), Missing)
ChildBad == JStr("c")

ChildrenValues ==
    {JList(l) : l \in SeqsUpTo({ChildFlat, ChildDeep, ChildBad}, MaxListLen)}
    \cup {JList(<<Node(Missing, Missing)>>), JList(<<Node(JNum(3), Missing)>>)}
    \cup {Missing, JNull, JMap(<<>>), JNum(1)}

NodeValues ==
    {Node(ml, Missing) : ml \in MatchListValues}
    \cup {Node(cm, ch) : cm \in {Missing, JList(<<MFull>>)}, ch \in ChildrenValues}
    \cup {JNull, JStr("n")}

NodesValues ==
    {JList(<<n>>) : n \in NodeValues}
    \cup {JList(l) : l \in SeqsUpTo({Node(JList(<<MFull>>), JList(<<ChildFlat>>)),
                                     Node(JList(<<MBare>>), Missing),
                                     JNull}, MaxListLen)}
    \cup {Missing, JNull, JMap(<<>>), JNum(2)}

ConfigurationsValues ==
    {Missing, JNull, JList(<<>>), JStr("c")}
    \cup {Obj(<< <<"nodes", nv>> >>) : nv \in NodesValues}

Doc(metrics, references, configurations) ==
    Obj(<< <<"id", JStr("CVE-1")>>, <<"metrics", metrics>>,
           <<"references", references>>, <<"configurations", configurations>> >>)

FewMetrics ==
    { Missing, JStr("m"),
      JMap(<< <<"cvssMetricV2", JList(<<Metric(V2Data)>>)>>,
              <<"cvssMetricV3", JList(<<Metric(V3Data)>>)>> >>) }
FewReferences ==
    { Missing, JNull, JMap(<< <<"reference_data", JList(<<RefGood>>)>> >>) }
FewConfigurations ==
    { Missing, JStr("c"),
      JMap(<< <<"nodes", JList(<<Node(JList(<<MFull>>), Missing)>>)>> >>) }

\* the documents a row's raw_json may hold: one branch takes every shape
\* while the other two take a missing, a malformed and a well-formed one
Docs ==
    {JNull, JNum(0), JBool(TRUE), JStr("raw"), JList(<<JNum(1)>>), JMap(<<>>)}
    \cup {Doc(m, r, c) : m \in MetricsValues, r \in FewReferences, c \in FewConfigurations}
    \cup {Doc(m, r, c) : m \in FewMetrics, r \in ReferencesValues, c \in FewConfigurations}
    \cup {Doc(m, r, c) : m \in FewMetrics, r \in FewReferences, c \in ConfigurationsValues}

\* the parameters of /cves/list
ListArgs(page, results_per_page, sort_by, sort_order, f) ==
    [ page |-> page, results_per_page |-> results_per_page,
      sort_by |-> sort_by, sort_order |-> sort_order,
      year |-> f.year, min_score_v3 |-> f.min_score_v3,
      min_score_v2 |-> f.min_score_v2, last_n_days |-> f.last_n_days,
      cve_id |-> f.cve_id ]

Filters ==
    [ year : {None, Some(0), Some(2023)},
      min_score_v3 : {None, Some(0), Some(7)},
      min_score_v2 : {None, Some(7)},
      last_n_days : {None, Some(0), Some(7)},
      cve_id : {None, Some(""), Some("ve-1")} ]

NoFilter ==
    [year |-> None, min_score_v3 |-> None, min_score_v2 |-> None,
     last_n_days |-> None, cve_id |-> None]

FewFilters ==
    { NoFilter, [NoFilter EXCEPT !.year = Some(2023), !.cve_id = Some("cve")] }

\* every paging and sorting with a few filters, every filter with the defaults
AllListArgs ==
    {ListArgs(pg, sz, sb, so, f) :
        pg \in {0, 1, 2, 3}, sz \in {0, 1, 2, 100, 101},
        sb \in {"published_date", "last_modified", "cve_id"},
        so \in {"asc", "Desc", "up"}, f \in FewFilters}
    \cup {ListArgs(1, 10, "published_date", "desc", f) : f \in Filters}

\* the requests of the concurrent runs
SomeListArgs ==
    { ListArgs(1, 2, "published_date", "desc", [NoFilter EXCEPT !.year = Some(2023)]),
      ListArgs(2, 1, "last_modified", "asc", NoFilter) }

SomeIds == {"CVE-1"}

\* the identifiers looked up in a table that holds "CVE-1"
AllIds == {"CVE-1", "cve-1", "CVE-9", "CVE-", ""}

(***************************************************************************)
(* The ingestion process.                                                  *)
(***************************************************************************)
\* ingestion commits a new row
Insert(row) ==
    /\ \A old \in store : old.cve_id # row.cve_id
    /\ store' = store \cup {row}
    /\ UNCHANGED <<now, open, pc, op, args, local, resp>>

\* ingestion commits a new version of a row
Update(row) ==
    /\ \E old \in store :
          /\ old.cve_id = row.cve_id
          /\ old # row
          /\ store' = (store \ {old}) \cup {row}
    /\ UNCHANGED <<now, open, pc, op, args, local, resp>>

(***************************************************************************)
(* Specifications.                                                         *)
(***************************************************************************)
InitRequests ==
    /\ open = {}
    /\ pc = [r \in Reqs |-> "idle"]
    /\ op = [r \in Reqs |-> "none"]
    /\ args = [r \in Reqs |-> NoArgs]
    /\ local = [r \in Reqs |-> Blank]
    /\ resp = [r \in Reqs |-> NoResp]

\* concurrent requests against a table that ingestion keeps writing
Init ==
    /\ store = {}
    /\ now = 411
    /\ InitRequests

Next ==
    \/ \E row \in Versions : Insert(row)
    \/ \E row \in Versions : Update(row)
    \/ \E r \in Reqs :
          \/ \E a \in SomeListArgs : list_cves_call(r, a)
          \/ \E id \in SomeIds : get_cve_call(r, id)
          \/ get_connection(r)
          \/ list_cves_rows(r)
          \/ list_cves_data(r)
          \/ list_cves_count(r)
          \/ list_cves_finally(r)
          \/ get_cve_fetch(r)
          \/ get_cve_finally(r)
          \/ Recycle(r)

Spec == Init /\ [][Next]_vars

\* one listing request at a time against any table, at any instant
InitList ==
    /\ store \in Stores
    /\ now \in 411 .. 411 + MaxLater
    /\ InitRequests

NextList ==
    \/ \E a \in AllListArgs : list_cves_call(1, a)
    \/ get_connection(1)
    \/ list_cves_rows(1)
    \/ list_cves_data(1)
    \/ list_cves_count(1)
    \/ list_cves_finally(1)

SpecList == InitList /\ [][NextList]_vars

\* one detail request at a time against a row holding any document
InitDetail ==
    /\ store \in {{Row("CVE-1", 10, 30, {8}, {}, d)} : d \in Docs}
    /\ now = 411
    /\ InitRequests

NextDetail ==
    \/ \E id \in AllIds : get_cve_call(1, id)
    \/ get_connection(1)
    \/ get_cve_fetch(1)
    \/ get_cve_finally(1)

SpecDetail == InitDetail /\ [][NextDetail]_vars

(***************************************************************************)
(* Properties of get_cve, checked under SpecDetail.                        *)
(***************************************************************************)
\* the value under key k of v; Missing when v is no mapping or has no such key
Val(v, k) == IF v.t = "map" /\ HasKey(v.m, k) THEN Lookup(v.m, k) ELSE Missing

IsAbsent(v) == v.t \in {"missing", "null"}

WithoutKey(v, k) ==
    IF v.t = "map" THEN JMap(SelectSeq(v.m, LAMBDA item : item[1] # k)) ELSE v

WithKey(v, k, x) ==
    JMap([i \in DOMAIN v.m |-> IF v.m[i][1] = k THEN <<k, x>> ELSE v.m[i]])

RowsFor(r) == {row \in store : row.cve_id = args[r].cve_id}
RowFor(r) == CHOOSE row \in store : row.cve_id = args[r].cve_id

\* request r ran get_cve and has its response
DetailDone(r) == op[r] = "get_cve" /\ pc[r] = "done"

\* request r ran get_cve on a stored identifier and the store answered
DetailAnswered(r) == DetailDone(r) /\ RowsFor(r) # {} /\ resp[r] # StoreError

\* C2: a lookup the store answers ends in 404 "CVE not found" exactly when no
\* row has the identifier (compared exactly, letter case included), and in
\* the normalised detail of the row otherwise; no outcome but these two and
\* the store's own failure exists.
C2_NotFoundExactlyWhenNoRecord ==
    \A r \in Reqs : DetailDone(r) =>
        /\ resp[r] # HandlerError
        /\ resp[r] # StoreError =>
              IF RowsFor(r) = {}
              THEN resp[r] = [status |-> 404, detail |-> "CVE not found"]
              ELSE resp[r] = [status |-> 200, body |-> Normalize(RowFor(r))]

\* a lookup of "cve-1" in a table holding "CVE-1" ended in 404
C2_Witness ==
    \E r \in Reqs :
        /\ DetailDone(r)
        /\ args[r].cve_id = "cve-1"
        /\ \E row \in store : row.cve_id = "CVE-1"
        /\ resp[r].status = 404

\* the raw_json with one of the four branches taken out
DropBranch(raw_json, b) ==
    CASE b \in {"references", "configurations"} -> WithoutKey(raw_json, b)
      [] OTHER ->
           IF Val(raw_json, "metrics").t = "map"
           THEN WithKey(raw_json, "metrics", WithoutKey(Val(raw_json, "metrics"), b))
           ELSE WithoutKey(raw_json, "metrics")

\* the outputs of the branches other than b agree
SameOthers(x, y, b) ==
    /\ b # "cvssMetricV2" => x.cvss_v2 = y.cvss_v2
    /\ b # "cvssMetricV3" => x.cvss_v3 = y.cvss_v3
    /\ b # "references" => x.references = y.references
    /\ b # "configurations" => x.products = y.products

Branches == {"cvssMetricV2", "cvssMetricV3", "references", "configurations"}

\* C3: whatever the shape of raw_json, the normalisation does not raise (the
\* answer is 200), and the output of each branch is what it would be with any
\* other branch taken out of the document: a malformed branch changes its own
\* output only.
C3_NeverRaisesBranchesIndependent ==
    \A r \in Reqs : DetailAnswered(r) =>
        /\ resp[r].status = 200
        /\ \A b \in Branches :
              SameOthers(resp[r].body,
                         Normalize([RowFor(r) EXCEPT !.raw_json = DropBranch(@, b)]),
                         b)

\* a document whose references are null (malformed) and whose other branches
\* are well-formed was normalised: references empty, the others filled
C3_Witness ==
    \E r \in Reqs :
        /\ DetailAnswered(r)
        /\ Val(RowFor(r).raw_json, "references") = JNull
        /\ resp[r].status = 200
        /\ resp[r].body.references = JList(<<>>)
        /\ resp[r].body.cvss_v3 # JMap(<<>>)
        /\ resp[r].body.products # JList(<<>>)

\* the first element of metrics.<key> when that is a non-empty list whose
\* first element is a mapping with cvssData a mapping or missing
FirstMetric(raw, key) == Val(Val(raw, "metrics"), key).l[1]

WellFormedMetric(raw, key) ==
    LET lst == Val(Val(raw, "metrics"), key)
    IN  /\ lst.t = "list"
        /\ lst.l # <<>>
        /\ lst.l[1].t = "map"
        /\ Val(lst.l[1], "cvssData").t \in {"missing", "map"}

\* the value found in cvssData, absent (null) when not there
FieldOf(metric, f) ==
    IF IsAbsent(Val(Val(metric, "cvssData"), f)) THEN JNull
    ELSE Val(Val(metric, "cvssData"), f)

ExpectedCvss(raw, key, fields) ==
    JMap([i \in DOMAIN fields |-> <<fields[i], FieldOf(FirstMetric(raw, key), fields[i])>>])

\* metrics is a mapping in which the scheme's list is missing or empty
NoMetric(raw, key) ==
    /\ Val(raw, "metrics").t = "map"
    /\ \/ Val(Val(raw, "metrics"), key).t = "missing"
       \/ Val(Val(raw, "metrics"), key) = JList(<<>>)

\* C4: without a metrics key both sub-records are empty; a non-empty list of
\* a scheme (first element a mapping, its cvssData a mapping or missing) gives
\* the sub-record holding every field of the scheme, each with the value of
\* the first element's cvssData or absent; a scheme whose list is missing or
\* empty has an empty sub-record.
C4_CvssFromFirstElement ==
    \A r \in Reqs : (DetailAnswered(r) /\ resp[r].status = 200) =>
        LET raw == RawOf(RowFor(r).raw_json)
            body == resp[r].body
        IN  /\ Val(raw, "metrics").t = "missing" =>
                  body.cvss_v2 = JMap(<<>>) /\ body.cvss_v3 = JMap(<<>>)
            /\ WellFormedMetric(raw, "cvssMetricV2") =>
                  body.cvss_v2 = ExpectedCvss(raw, "cvssMetricV2", V2Fields)
            /\ WellFormedMetric(raw, "cvssMetricV3") =>
                  body.cvss_v3 = ExpectedCvss(raw, "cvssMetricV3", V3Fields)
            /\ NoMetric(raw, "cvssMetricV2") => body.cvss_v2 = JMap(<<>>)
            /\ NoMetric(raw, "cvssMetricV3") => body.cvss_v3 = JMap(<<>>)

\* metrics held only cvssMetricV3 = [{cvssData: {baseScore, attackVector}}]:
\* cvss_v3 has the two values, its other fields absent, and cvss_v2 is empty
C4_Witness ==
    \E r \in Reqs :
        /\ DetailAnswered(r)
        /\ resp[r].status = 200
        /\ Val(RowFor(r).raw_json, "metrics") =
              JMap(<< <<"cvssMetricV3", JList(<<Metric(V3Data)>>)>> >>)
        /\ resp[r].body.cvss_v2 = JMap(<<>>)
        /\ resp[r].body.cvss_v3 =
              JMap([i \in DOMAIN V3Fields |->
                      <<V3Fields[i],
                        CASE V3Fields[i] = "baseScore" -> JNum(98)
                          [] V3Fields[i] = "attackVector" -> JStr("NETWORK")
                          [] OTHER -> JNull>>])

\* the list under key k of x, empty when the key is absent
ListIn(x, k) == IF Val(x, k).t = "list" THEN Val(x, k).l ELSE <<>>

RECURSIVE Flat(_)
Flat(seqs) == IF seqs = <<>> THEN <<>> ELSE Head(seqs) \o Flat(Tail(seqs))

\* the cpe_match entries of a node: its own, then those of its direct children
NodeMatches(node) ==
    ListIn(node, "cpe_match")
    \o Flat([i \in DOMAIN ListIn(node, "children") |->
                ListIn(ListIn(node, "children")[i], "cpe_match")])

AllMatches(nodes) == Flat([i \in DOMAIN nodes |-> NodeMatches(nodes[i])])

\* a match that carries a criteria string (a non-empty one)
HasCriteria(match) ==
    Val(match, "cpe23Uri").t = "str" /\ Val(match, "cpe23Uri").s # ""

ExpectedProduct(match) ==
    JMap(<< <<"criteria", Val(match, "cpe23Uri")>>,
            <<"matchCriteriaId",
              IF IsAbsent(Val(match, "matchCriteriaId")) THEN JNull
              ELSE Val(match, "matchCriteriaId")>>,
            <<"vulnerable",
              IF Val(match, "vulnerable").t = "missing" THEN JBool(FALSE)
              ELSE Val(match, "vulnerable")>> >>)

ExpectedProducts(matches) ==
    LET kept == SelectSeq(matches, HasCriteria)
    IN  JList([i \in DOMAIN kept |-> ExpectedProduct(kept[i])])

IsMap(v) == v.t = "map"

\* x is absent or a list, of mappings when strict
ListOrAbsent(x, strict) ==
    \/ IsAbsent(x)
    \/ x.t = "list" /\ (strict => \A i \in DOMAIN x.l : IsMap(x.l[i]))

\* a match whose criteria is a string or absent
WellTypedMatch(match) == IsMap(match) => Val(match, "cpe23Uri").t \in {"str", "missing", "null"}

\* configurations.nodes is a list of mappings whose cpe_match and children
\* are lists or absent, as are the cpe_match of the children that are
\* mappings; when strict, every element of these lists is a mapping
NodesShaped(raw, strict) ==
    LET nodes == Val(Val(raw, "configurations"), "nodes")
    IN  /\ nodes.t = "list"
        /\ \A i \in DOMAIN nodes.l :
              LET node == nodes.l[i]
              IN  /\ IsMap(node)
                  /\ ListOrAbsent(Val(node, "cpe_match"), strict)
                  /\ ListOrAbsent(Val(node, "children"), strict)
                  /\ \A j \in DOMAIN ListIn(node, "children") :
                        IsMap(ListIn(node, "children")[j]) =>
                            ListOrAbsent(Val(ListIn(node, "children")[j], "cpe_match"), strict)
                  /\ \A j \in DOMAIN NodeMatches(node) : WellTypedMatch(NodeMatches(node)[j])

NodesOf(raw) == Val(Val(raw, "configurations"), "nodes").l

\* C5: for a nodes list of mappings (their cpe_match and children lists of
\* mappings or absent), products holds one entry (criteria, matchCriteriaId,
\* vulnerable) per match with a criteria string, of the nodes and of their
\* direct children only, in node order, a node's own matches before its
\* children's; matches without criteria are dropped and vulnerable is false
\* when the match has no such flag.
C5_ProductsOneLevel ==
    \A r \in Reqs : (DetailAnswered(r) /\ resp[r].status = 200) =>
        LET raw == RawOf(RowFor(r).raw_json)
        IN  NodesShaped(raw, TRUE) =>
                resp[r].body.products = ExpectedProducts(AllMatches(NodesOf(raw)))

\* a node with the match p1, a child with p2 and a child with p1 whose own
\* child carries p2: three products, p1, p2 (no id, not vulnerable), p1
C5_Witness ==
    \E r \in Reqs :
        /\ DetailAnswered(r)
        /\ resp[r].status = 200
        /\ NodesShaped(RawOf(RowFor(r).raw_json), TRUE)
        /\ NodesOf(RawOf(RowFor(r).raw_json)) =
              <<Node(JList(<<MFull>>), JList(<<ChildFlat, ChildDeep>>))>>
        /\ resp[r].body.products =
              JList(<< ExpectedProduct(MFull),
                       JMap(<< <<"criteria", JStr("p2")>>, <<"matchCriteriaId", JNull>>,
                               <<"vulnerable", JBool(FALSE)>> >>),
                       ExpectedProduct(MFull) >>)

ExpectedReference(ref) ==
    JMap(<< <<"url", IF IsAbsent(Val(ref, "url")) THEN JNull ELSE Val(ref, "url")>>,
            <<"name", IF IsAbsent(Val(ref, "name")) THEN JNull ELSE Val(ref, "name")>> >>)

ExpectedReferences(refs) ==
    LET kept == SelectSeq(refs, IsMap)
    IN  JList([i \in DOMAIN kept |-> ExpectedReference(kept[i])])

ReferenceData(raw) == Val(Val(raw, "references"), "reference_data")

\* C9 as claimed: the well-formed entries of a reference_data, cpe_match or
\* children list still produce their outputs, in order, when another element
\* of the list is wrong-typed.
C9_Claimed_ElementsIndependent ==
    \A r \in Reqs : (DetailAnswered(r) /\ resp[r].status = 200) =>
        LET raw == RawOf(RowFor(r).raw_json)
        IN  /\ ReferenceData(raw).t = "list" =>
                  resp[r].body.references = ExpectedReferences(ReferenceData(raw).l)
            /\ NodesShaped(raw, FALSE) =>
                  resp[r].body.products =
                      ExpectedProducts(SelectSeq(AllMatches(NodesOf(raw)), IsMap))

\* some element of a cpe_match or children list of the nodes is no mapping
BadProductElement(raw) ==
    \E i \in DOMAIN NodesOf(raw) :
        LET node == NodesOf(raw)[i]
        IN  \/ \E j \in DOMAIN NodeMatches(node) : ~IsMap(NodeMatches(node)[j])
            \/ \E j \in DOMAIN ListIn(node, "children") : ~IsMap(ListIn(node, "children")[j])

\* C9 as amended: a wrong-typed element of reference_data empties references
\* as a whole, one of a node's cpe_match or children list empties products
\* as a whole; lists of mappings only give every entry, in order.
C9_WrongElementEmptiesBranch ==
    \A r \in Reqs : (DetailAnswered(r) /\ resp[r].status = 200) =>
        LET raw == RawOf(RowFor(r).raw_json)
        IN  /\ ReferenceData(raw).t = "list" =>
                  resp[r].body.references =
                      IF \A i \in DOMAIN ReferenceData(raw).l : IsMap(ReferenceData(raw).l[i])
                      THEN ExpectedReferences(ReferenceData(raw).l)
                      ELSE JList(<<>>)
            /\ NodesShaped(raw, FALSE) =>
                  resp[r].body.products =
                      IF BadProductElement(raw) THEN JList(<<>>)
                      ELSE ExpectedProducts(AllMatches(NodesOf(raw)))

\* reference_data held a well-formed entry followed by a string: references
\* came out empty
C9_Witness ==
    \E r \in Reqs :
        /\ DetailAnswered(r)
        /\ resp[r].status = 200
        /\ ReferenceData(RawOf(RowFor(r).raw_json)) = JList(<<RefGood, RefBad>>)
        /\ resp[r].body.references = JList(<<>>)

(***************************************************************************)
(* Properties of list_cves and build_where_clause, checked under SpecList. *)
(***************************************************************************)
\* request r ran list_cves and has its response
ListDone(r) == op[r] = "list_cves" /\ pc[r] = "done"

\* the sort key and direction a request asks for, the defaults standing in
\* for values that are not valid
RequestedKey(a) == IF a.sort_by = "last_modified" THEN "last_modified" ELSE "published_date"
RequestedOrder(a) == IF Lower(a.sort_order) = "asc" THEN "ASC" ELSE "DESC"

\* the rows the filter of the request selects
Selected(a) ==
    LET w == build_where_clause(a.year, a.min_score_v3, a.min_score_v2,
                                a.last_n_days, a.cve_id)
    IN  Matching(store, w.where_clause, w.params, now)

\* C1: a listing the store answers carries total_records = the number of
\* rows the filter selects, whatever the page and page size, and cves = the
\* rows at positions (page-1)*size+1 .. min(page*size, total) of the selected
\* rows in the requested order; past the last page cves is empty and the
\* answer is still 200.
C1_TotalAndPage ==
    \A r \in Reqs : (ListDone(r) /\ Validated(args[r]) /\ resp[r] # StoreError) =>
        LET a == args[r]
            total == Cardinality(Selected(a))
            first == (a.page - 1) * a.results_per_page + 1
            last == Min(a.page * a.results_per_page, total)
        IN  /\ resp[r].status = 200
            /\ resp[r].body.page = a.page
            /\ resp[r].body.results_per_page = a.results_per_page
            /\ resp[r].body.total_records = total
            /\ \E q \in Ordered(Selected(a), RequestedKey(a), RequestedOrder(a)) :
                  resp[r].body.cves = [i \in 1 .. (last - first + 1) |-> Summary(q[first + i - 1])]
            /\ first - 1 >= total => resp[r].body.cves = <<>>

\* three rows selected, page 2 of size 2: the third row alone, total 3
C1_Witness ==
    \E r \in Reqs :
        /\ ListDone(r)
        /\ resp[r].status = 200
        /\ args[r].page = 2
        /\ args[r].results_per_page = 2
        /\ resp[r].body.total_records = 3
        /\ Len(resp[r].body.cves) = 1

\* cves is in the order of the key and direction
SortedBy(cves, key, order) ==
    \A i, j \in DOMAIN cves : i < j =>
        IF order = "ASC" THEN SortKeyOf(cves[i], key) <= SortKeyOf(cves[j], key)
        ELSE SortKeyOf(cves[i], key) >= SortKeyOf(cves[j], key)

\* C7 as claimed: an invalid sort key, direction or page size never gives an
\* error; the default (published_date, descending, 10) replaces it.
C7_Claimed_InvalidNeverAnError ==
    \A r \in Reqs : (ListDone(r) /\ args[r].page >= MinPage /\ resp[r] # StoreError) =>
        /\ resp[r].status = 200
        /\ resp[r].body.results_per_page =
              IF args[r].results_per_page \in MinPageSize .. MaxPageSize
              THEN args[r].results_per_page ELSE DefaultPageSize
        /\ SortedBy(resp[r].body.cves, RequestedKey(args[r]), RequestedOrder(args[r]))

\* C7 as amended: an invalid sort key or direction never gives an error, the
\* listing is sorted by the default (published_date, descending) instead; a
\* page size outside 1..100 is answered with the validation error 422 and is
\* not replaced by 10.
C7_SortFallsBackPageSizeRejected ==
    \A r \in Reqs : ListDone(r) =>
        /\ args[r].results_per_page \notin MinPageSize .. MaxPageSize =>
              resp[r] = ValidationError
        /\ Validated(args[r]) =>
              /\ resp[r] # ValidationError
              /\ resp[r] # StoreError =>
                    /\ resp[r].status = 200
                    /\ resp[r].body.results_per_page = args[r].results_per_page
                    /\ SortedBy(resp[r].body.cves, RequestedKey(args[r]),
                                RequestedOrder(args[r]))

\* sort_by "cve_id" and sort_order "up" were asked for: two rows came back,
\* the later published_date first
C7_Witness ==
    \E r \in Reqs :
        /\ ListDone(r)
        /\ args[r].sort_by = "cve_id"
        /\ args[r].sort_order = "up"
        /\ resp[r].status = 200
        /\ Len(resp[r].body.cves) = 2
        /\ resp[r].body.cves[1].published_date > resp[r].body.cves[2].published_date

\* the conditions and bound values of the parameters that were supplied
SuppliedConditions(a) ==
    <<CondTrue>>
    \o (IF a.year.some THEN <<CondYear>> ELSE <<>>)
    \o (IF a.min_score_v3.some THEN <<CondV3>> ELSE <<>>)
    \o (IF a.min_score_v2.some THEN <<CondV2>> ELSE <<>>)
    \o (IF a.last_n_days.some THEN <<CondDays>> ELSE <<>>)
    \o (IF a.cve_id.some THEN <<CondId>> ELSE <<>>)

SuppliedValues(a) ==
    (IF a.year.some THEN <<PInt(a.year.v)>> ELSE <<>>)
    \o (IF a.min_score_v3.some THEN <<PInt(a.min_score_v3.v)>> ELSE <<>>)
    \o (IF a.min_score_v2.some THEN <<PInt(a.min_score_v2.v)>> ELSE <<>>)
    \o (IF a.last_n_days.some THEN <<PInt(a.last_n_days.v)>> ELSE <<>>)
    \o (IF a.cve_id.some THEN <<PText("%" \o a.cve_id.v \o "%")>> ELSE <<>>)

\* the handler has built its where clause and has not failed
ClauseBuilt(r) == op[r] = "list_cves" /\ pc[r] \in {"connect", "rows", "data", "count"}

\* C8 as claimed: the clause holds exactly one condition per supplied
\* parameter (0 and "" included), none for the others, the values in the
\* order of the conditions; both minimum scores are inclusive bounds.
C8_Claimed_OneConditionPerSupplied ==
    \A r \in Reqs : ClauseBuilt(r) =>
        /\ local[r].where_clause = SuppliedConditions(args[r])
        /\ local[r].params = SuppliedValues(args[r])
        /\ \A row \in store :
              (/\ args[r].min_score_v3.some
               /\ args[r].min_score_v2.some
               /\ Holds(row, local[r].where_clause, local[r].params, now)) =>
                  /\ \E x \in row.base_score_v3 : x >= args[r].min_score_v3.v
                  /\ \E x \in row.base_score_v2 : x >= args[r].min_score_v2.v
        /\ args[r] = [args[r] EXCEPT !.year = None, !.min_score_v3 = None,
                                     !.min_score_v2 = None, !.last_n_days = None,
                                     !.cve_id = None] =>
              \A row \in store : Holds(row, local[r].where_clause, local[r].params, now)

(***************************************************************************)
(* Properties of concurrent requests, checked under Spec.                  *)
(***************************************************************************)
\* request r is inside its try block: it holds a connection
InTry(r) == pc[r] \in {"rows", "data", "count", "fetch", "finally"}

\* C6: the open connections are exactly those of the requests inside their
\* try blocks, each request its own; a request that is not yet connected or
\* has finished, by return, 404 or a failing statement, holds none.
C6_ConnectionsScoped ==
    /\ open = {local[r].conn : r \in {x \in Reqs : InTry(x)}}
    /\ \A r1, r2 \in Reqs : (InTry(r1) /\ InTry(r2) /\ r1 # r2) => local[r1].conn # local[r2].conn
    /\ \A r \in Reqs : ~InTry(r) => local[r].conn = 0
    /\ Cardinality(open) = Cardinality({r \in Reqs : InTry(r)})

\* one request has returned its listing while another, whose statement has
\* failed, still holds the only open connection
C6_Witness ==
    \E r1, r2 \in Reqs :
        /\ pc[r1] = "done"
        /\ resp[r1].status = 200
        /\ pc[r2] = "finally"
        /\ local[r2].exc
        /\ open = {local[r2].conn}

Max(a, b) == IF a > b THEN a ELSE b

\* C10 as claimed: the page never holds more rows than the count leaves for
\* it, even when ingestion commits between the two queries.
C10_Claimed_PageWithinCount ==
    \A r \in Reqs : (ListDone(r) /\ resp[r].status = 200) =>
        Len(resp[r].body.cves) <=
            Max(0, resp[r].body.total_records
                   - (resp[r].body.page - 1) * resp[r].body.results_per_page)

====
